---- MODULE Spec2Model ----
(***************************************************************************)
(* LGDetector (src/model/lg.py): the orchestration of detector, feature    *)
(* extraction, graph head, semantic encoder, reconstruction head and       *)
(* downstream head, with the box perturbation and result aggregation       *)
(* utilities.                                                              *)
(*                                                                         *)
(* Coordinates are fixed-point numbers in units of 1/Den pixel, so that    *)
(* the products with the perturbation factor (PfNum/PfDen) and with a      *)
(* random draw (k/RandDen) are exact.  Floating-point rounding is not      *)
(* modelled.                                                               *)
(***************************************************************************)
EXTENDS Integers, Sequences, FiniteSets, TLC

VARIABLES args, cfg, call, out

vars == <<args, cfg, call, out>>

(* ---------------------------- bounds ---------------------------------- *)
MaxCoord == 3
MaxDim == 2
MaxBatch == 2
MaxInst == 2
RandDen == 2
PfDen == 2

Den == PfDen * RandDen

Px(n) == n * Den

(* ------------------------- sequence helpers --------------------------- *)
Min(a, b) == IF a < b THEN a ELSE b

Max(a, b) == IF a > b THEN a ELSE b

RECURSIVE Cat(_)
\* torch.cat over a list of per-image tensors
Cat(ss) == IF ss = <<>> THEN <<>> ELSE Head(ss) \o Cat(Tail(ss))

Lens(ss) == [i \in 1..Len(ss) |-> Len(ss[i])]

RECURSIVE SumSeq(_)
SumSeq(ns) == IF ns = <<>> THEN 0 ELSE Head(ns) + SumSeq(Tail(ns))

RECURSIVE MaxSeq(_)
MaxSeq(ns) == IF ns = <<>> THEN 0 ELSE Max(Head(ns), MaxSeq(Tail(ns)))

RECURSIVE Split(_, _)
\* Tensor.split(sizes): consecutive chunks of the given sizes
Split(flat, sizes) ==
  IF sizes = <<>> THEN <<>>
  ELSE <<SubSeq(flat, 1, Head(sizes))>>
       \o Split(SubSeq(flat, Head(sizes) + 1, Len(flat)), Tail(sizes))

\* the element of a singleton set (binds an intermediate result once)
The(S) == CHOOSE x \in S : TRUE

SeqsUpTo(S, n) == UNION {[1..k -> S] : k \in 0..n}

(* ------------------------------ boxes --------------------------------- *)
\* a box is <<x1, y1, x2, y2>>; the inputs are whole pixels with x1 <= x2, y1 <= y2
AllBoxes ==
  {<<Px(x1), Px(y1), Px(x2), Px(y2)>> :
     <<x1, y1, x2, y2>> \in {b \in (0..MaxCoord) \X (0..MaxCoord) \X (0..MaxCoord) \X (0..MaxCoord) :
                              b[1] <= b[3] /\ b[2] <= b[4]}}

BoxPool == {<<Px(0), Px(0), Px(1), Px(1)>>, <<Px(1), Px(0), Px(MaxCoord + 1), Px(MaxCoord)>>}

\* image_shape is (height, width)
Shapes == {<<h, w>> : h \in 1..MaxDim, w \in 1..MaxDim}

DrawRows == [1..4 -> 0..(RandDen - 1)]

DrawRowsSmall == {[j \in 1..4 |-> 0], [j \in 1..4 |-> IF j <= 2 THEN RandDen - 1 ELSE 0]}

(* -------------------------- box_perturbation -------------------------- *)
PfClampMut(pfNum) == pfNum

\* min(self.perturb_factor, 1), as a numerator over PfDen
PfClamp(pfNum) == Min(pfNum, PfDen)

\* h = xmax - xmin, w = ymax - ymin, stacked and repeated: [h, w, h, w]
Extent(b) == <<b[3] - b[1], b[4] - b[2], b[3] - b[1], b[4] - b[2]>>

\* perturb_factor * (rand * [h,w,h,w] - [h,w,h,w]), one row
PerturbRow(pfNum, b, r) ==
  [c \in 1..4 |-> (PfClamp(pfNum) * (r[c] * Extent(b)[c] - RandDen * Extent(b)[c])) \div Den]

\* torch.maximum(0, .) then torch.minimum([W, H, W, H], .); image_shape is flipped
ClampBox(b, image_shape) ==
  LET lim == <<Px(image_shape[2]), Px(image_shape[1]), Px(image_shape[2]), Px(image_shape[1])>>
  IN  [c \in 1..4 |-> Min(lim[c], Max(0, b[c]))]

\* the clip branch: torch.stack over a list of ints raises, and perturbed_boxes is never bound
ClipBranch(boxes, clip_size) ==
  [err |-> IF clip_size = 0 THEN "ZeroDivisionError" ELSE "TypeError",
   boxes |-> <<>>, draw |-> <<>>]

BoxPerturbation(pfNum, boxes, image_shape, clip_size, draw) ==
  LET flat == Cat(boxes) IN
  IF clip_size # -1
  THEN ClipBranch(boxes, clip_size)
  ELSE LET perturbed == [j \in 1..Len(flat) |->
                           [c \in 1..4 |-> flat[j][c] + PerturbRow(pfNum, flat[j], draw[j])[c]]]
           clamped == [j \in 1..Len(flat) |-> ClampBox(perturbed[j], image_shape)]
       IN  [err |-> "", boxes |-> Split(clamped, Lens(boxes)), draw |-> draw]

(* ----------------------------- __init__ ------------------------------- *)
NumClasses == 6
SemanticFeatSize == 512
MaskPolygonNumPoints == 16
NumEdgeClasses == 3

\* the constructor's arguments at their defaults (a head that is None is FALSE)
DefaultArgs ==
  [perturb_factor |-> 0, use_pred_boxes_recon_loss |-> FALSE,
   reconstruction_head |-> FALSE, graph_head |-> FALSE, ds_head |-> FALSE,
   roi_extractor |-> FALSE, use_gt_dets |-> FALSE, force_train_graph_head |-> FALSE,
   sem_feat_use_class_logits |-> TRUE, sem_feat_use_bboxes |-> TRUE,
   sem_feat_use_masks |-> TRUE, force_encode_semantics |-> FALSE,
   semantic_feat_size |-> SemanticFeatSize]

PerturbFactorInitMut(a) == a.perturb_factor

\* self.perturb_factor = perturb_factor if not use_gt_dets else 0
PerturbFactorInit(a) == IF ~a.use_gt_dets THEN a.perturb_factor ELSE 0

\* self.encode_semantics
EncodeSemanticsInit(a) ==
  a.force_encode_semantics
    \/ ((a.ds_head \/ a.reconstruction_head) /\ a.semantic_feat_size > 0)

\* the object after construction
LGDetectorInit(a) ==
  [use_gt_dets |-> a.use_gt_dets,
   perturb_factor |-> PerturbFactorInit(a),
   roi_extractor |-> a.roi_extractor,
   reconstruction_head |-> a.reconstruction_head,
   graph_head |-> a.graph_head,
   num_edge_classes |-> IF a.graph_head THEN NumEdgeClasses ELSE 0,
   ds_head |-> a.ds_head,
   force_train_graph_head |-> a.force_train_graph_head,
   use_pred_boxes_recon_loss |-> a.use_pred_boxes_recon_loss,
   encode_semantics |-> EncodeSemanticsInit(a),
   sem_feat_use_bboxes |-> a.sem_feat_use_bboxes,
   sem_feat_use_class_logits |-> a.sem_feat_use_class_logits,
   sem_feat_use_masks |-> a.sem_feat_use_masks,
   sem_input_dim |-> 1 + (IF a.sem_feat_use_bboxes THEN 4 ELSE 0)
                       + (IF a.sem_feat_use_class_logits THEN NumClasses ELSE 0)
                       + (IF a.sem_feat_use_masks THEN MaskPolygonNumPoints * 2 ELSE 0),
   edge_sem_input_dim |-> (IF a.sem_feat_use_bboxes THEN 4 ELSE 0)
                       + (IF a.sem_feat_use_class_logits
                          THEN (IF a.graph_head THEN NumEdgeClasses ELSE 0) ELSE 0)]

(* --------------------------- extract_feat ----------------------------- *)
\* A data sample with the detector's prediction for it:
\*   key        is_det_keyframe
\*   pred       pred_instances.bboxes (working resolution)
\*   gt         gt_instances.bboxes
\*   gt_masks   'masks' in gt_instances
\*   sf         scale_factor (w_scale, h_scale)
\*   ori_shape  (height, width)
\* A batch is [imgs, pred_masks, gt_classes]: pred_masks is 'masks' in
\* pred_instances (the detector predicts masks or not), gt_classes whether the
\* ground truth carries a field 'classes'.

PadRow == [img |-> -1, k |-> -1, box |-> <<0, 0, 0, 0>>]

\* torch.nn.utils.rnn.pad_sequence(batch_first=True)
PadSequence(ss, pad) ==
  LET m == MaxSeq(Lens(ss))
  IN  [i \in 1..Len(ss) |-> ss[i] \o [j \in 1..(m - Len(ss[i])) |-> pad]]

\* python slice s[:n]
Slice(s, n) == SubSeq(s, 1, Min(n, Len(s)))

UseGtBranch(c, training) == c.use_gt_dets /\ training

SelMut(r, field) == [src |-> "gt", n |-> Len(r.gt)]

\* the source and instance count of one image's boxes/classes/scores/masks
\* in the ground-truth branch of extract_feat
ExtractFeatSel(r, field) ==
  IF r.key /\ Len(r.gt) > 0
  THEN (IF field = "scores" THEN [src |-> "ones", n |-> Len(r.pred)]
        ELSE [src |-> "gt", n |-> Len(r.gt)])
  ELSE IF r.key THEN [src |-> IF field = "masks" THEN "zeros" ELSE "empty", n |-> 0]
  ELSE [src |-> "pred", n |-> Len(r.pred)]

PredSel(r) == [src |-> "pred", n |-> Len(r.pred)]

SelBoxes(r, sel) == IF sel.src = "gt" THEN r.gt ELSE IF sel.src = "pred" THEN r.pred ELSE <<>>

\* (self.training or force_perturb) and self.perturb_factor > 0
PerturbGuard(c, training, force_perturb) ==
  (training \/ force_perturb) /\ c.perturb_factor > 0

\* roi_feats: one pooled row per region, in the order of bbox2roi(boxes)
RoiRows(boxes) ==
  Cat([i \in 1..Len(boxes) |-> [k \in 1..Len(boxes[i]) |-> [img |-> i - 1, k |-> k - 1, box |-> boxes[i][k]]]])

\* boxes_per_img = [len(b) for b in boxes]
BoxesPerImg(boxes, results) == Lens(boxes)

\* detector.get_queries and the SAM variants: one feature row per predicted instance
QueryFeats(results) ==
  PadSequence([i \in 1..Len(results) |->
                 [k \in 1..Len(results[i].pred) |-> [img |-> i - 1, k |-> k - 1, box |-> results[i].pred[k]]]],
              PadRow)

ExtractFeat(c, training, batch, force_perturb, clip_size, draw) ==
  LET results == batch.imgs
      n == Len(results)
      use_masks == batch.pred_masks
      gtb == UseGtBranch(c, training)
      sel(f) == [i \in 1..n |-> IF gtb THEN ExtractFeatSel(results[i], f) ELSE PredSel(results[i])]
      selected == [i \in 1..n |-> SelBoxes(results[i], sel("boxes")[i])]
      doPerturb == PerturbGuard(c, training, force_perturb)
      bp == IF doPerturb
            THEN BoxPerturbation(c.perturb_factor, selected, results[1].ori_shape, clip_size, draw)
            ELSE [err |-> "", boxes |-> selected, draw |-> <<>>]
      boxes == bp.boxes
  IN  IF bp.err # ""
      THEN [err |-> bp.err]
      ELSE [err |-> "",
            selected |-> selected,
            boxes |-> boxes,
            perturbed |-> doPerturb,
            box_sel |-> sel("boxes"),
            class_sel |-> sel("classes"),
            score_sel |-> sel("scores"),
            has_masks |-> use_masks,
            mask_sel |-> IF use_masks THEN sel("masks") ELSE <<>>,
            instance_feats |-> IF c.roi_extractor
                               THEN PadSequence(Split(RoiRows(boxes), BoxesPerImg(boxes, results)), PadRow)
                               ELSE QueryFeats(results),
            semantic_feats |-> FALSE]

(* ----------------------- compute_semantic_feat ------------------------ *)
\* the source and instance count of one image's field in the ground-truth
\* branch of compute_semantic_feat
SemFeatSel(r, field) ==
  IF field = "masks"
  THEN (IF r.key /\ r.gt_masks THEN [src |-> "gt", n |-> Len(r.gt)]
        ELSE [src |-> "pred", n |-> Len(r.pred)])
  ELSE IF r.key
  THEN [src |-> IF field = "scores" THEN "ones" ELSE "gt", n |-> Len(r.gt)]
  ELSE [src |-> "pred", n |-> Len(r.pred)]

SelCounts(sel) == [i \in 1..Len(sel) |-> sel[i].n]

\* build_mlp(dim_list, batch_norm='batch') applied to a rows x width input:
\* the first linear layer needs the width it was built with, and batch
\* normalisation in training mode needs more than one row
Projector(training, in_dim, rows, width) ==
  IF width # in_dim THEN "RuntimeError"
  ELSE IF training /\ rows = 1 THEN "ValueError"
  ELSE ""

ComputeSemanticFeat(c, training, batch, graph) ==
  LET results == batch.imgs
      n == Len(results)
      gtb == UseGtBranch(c, training)
      sel(f) == [i \in 1..n |-> IF gtb THEN SemFeatSel(results[i], f) ELSE PredSel(results[i])]
      anyKey == \E i \in 1..n : results[i].key
      has_masks == IF gtb THEN results[1].gt_masks ELSE batch.pred_masks
      maskAttrErr == gtb /\ has_masks /\ ~batch.pred_masks
                       /\ \E i \in 1..n : sel("masks")[i].src = "pred"
      \* padded instance counts of the terms that are concatenated
      nb == MaxSeq(SelCounts(sel("boxes")))
      nc == MaxSeq(SelCounts(sel("classes")))
      ns == MaxSeq(SelCounts(sel("scores")))
      nm == MaxSeq(SelCounts(sel("masks")))
      catErr == \/ c.sem_feat_use_bboxes /\ nb # ns
                \/ c.sem_feat_use_class_logits /\ nc # ns
                \/ c.sem_feat_use_masks /\ nm # ns
      width == (IF c.sem_feat_use_bboxes THEN 4 ELSE 0)
                 + (IF c.sem_feat_use_class_logits THEN NumClasses ELSE 0)
                 + (IF c.sem_feat_use_masks THEN MaskPolygonNumPoints * 2 ELSE 0) + 1
      rows == n * ns
      proj_rows == IF rows = 1 THEN 2 ELSE rows
      nodeErr == Projector(training, c.sem_input_dim, proj_rows, width)
      edge_rows == IF graph.none THEN 0 ELSE Len(graph.edge_flats)
      edge_width == 4 + c.num_edge_classes
      \* the duplication test reads shape[1], the width of the edge input
      edge_proj_rows == IF edge_width = 1 THEN 2 * edge_rows ELSE edge_rows
      edgeErr == IF graph.none THEN ""
                 ELSE Projector(training, c.edge_sem_input_dim, edge_proj_rows, edge_width)
      \* the errors raised before the node input reaches its projector
      inputErr == IF gtb /\ anyKey /\ ~batch.gt_classes THEN "AttributeError"
                  ELSE IF maskAttrErr THEN "AttributeError"
                  ELSE IF c.sem_feat_use_masks /\ ~has_masks THEN "TypeError"
                  ELSE IF catErr THEN "RuntimeError"
                  ELSE ""
      err == IF inputErr # "" THEN inputErr
             ELSE IF nodeErr # "" THEN nodeErr
             ELSE edgeErr
  IN  [err |-> err,
       node_invoked |-> (inputErr = ""),
       edge_invoked |-> (inputErr = "" /\ nodeErr = "" /\ ~graph.none),
       box_sel |-> sel("boxes"),
       class_sel |-> sel("classes"),
       score_sel |-> sel("scores"),
       has_masks |-> has_masks,
       mask_sel |-> IF has_masks THEN sel("masks") ELSE <<>>,
       width |-> width, rows |-> rows, proj_rows |-> proj_rows,
       edge_width |-> edge_width, edge_rows |-> edge_rows, edge_proj_rows |-> edge_proj_rows]

NoSem == [err |-> "", called |-> FALSE]

(* ----------------------------- extract_lg ----------------------------- *)
NoGraph == [none |-> TRUE]

\* The graph head's output for per-image edge lists g (each edge <<source, target>>):
\* edge_flats rows are <<image index, source, target>>, batched in image order,
\* edges_per_img the per-image counts, boxes a per-image list, class_logits one
\* row per edge (tagged here with the edge it belongs to).
GraphOf(g) ==
  LET rows == [i \in 1..Len(g) |-> [k \in 1..Len(g[i]) |-> <<i - 1, g[i][k][1], g[i][k][2]>>]]
  IN  [none |-> FALSE,
       edge_flats |-> Cat(rows),
       edges_per_img |-> Lens(g),
       boxes |-> rows,
       class_logits |-> Cat(rows)]

NoLosses == [none |-> TRUE, keys |-> {}]

Losses(keys) == [none |-> FALSE, keys |-> keys]

TrainGraphHeadMut(c, training, detTraining) ==
  detTraining \/ c.force_train_graph_head

\* the graph head is trained: detector.training, or force_train_graph_head and self.training
TrainGraphHead(c, training, detTraining) ==
  detTraining \/ (c.force_train_graph_head /\ training)

\* extract_lg after extract_feat returned feats
ExtractLgGraph(c, training, detTraining, batch, g, losses, feats) ==
  LET results == batch.imgs
      \* r.pred_instances.feats = feats.instance_feats[ind][:n]
      pred_feats == [i \in 1..Len(results) |-> Slice(feats.instance_feats[i], Len(results[i].pred))]
      graph_call == IF ~c.graph_head THEN "none"
                    ELSE IF TrainGraphHead(c, training, detTraining)
                    THEN "loss_and_predict" ELSE "predict"
      graph == IF c.graph_head THEN GraphOf(g) ELSE NoGraph
      updErr == graph_call = "loss_and_predict" /\ losses.none
      losses2 == IF graph_call = "loss_and_predict" /\ ~losses.none
                 THEN Losses(losses.keys \cup {"loss_graph"}) ELSE losses
      base == [err |-> "", feats |-> feats, pred_feats |-> pred_feats, graph_call |-> graph_call,
               graph |-> NoGraph, gt_edges_none |-> TRUE, losses |-> losses, sem |-> NoSem,
               semantic_feats |-> FALSE]
  IN  IF updErr THEN [base EXCEPT !.err = "AttributeError"]
      ELSE The({IF sem.err # ""
                THEN [base EXCEPT !.err = sem.err, !.losses = losses2, !.sem = sem]
                ELSE [base EXCEPT !.graph = graph, !.gt_edges_none = (graph_call # "predict"),
                                  !.losses = losses2, !.sem = sem,
                                  !.semantic_feats = sem.called] :
                sem \in {IF c.graph_head /\ c.encode_semantics
                         THEN [called |-> TRUE] @@ ComputeSemanticFeat(c, training, batch, graph)
                         ELSE NoSem}})

ExtractLg(c, training, detTraining, batch, g, force_perturb, losses, clip_size, draw) ==
  The({IF feats.err # ""
       THEN [err |-> feats.err, feats |-> feats, pred_feats |-> <<>>, graph_call |-> "none",
             graph |-> NoGraph, gt_edges_none |-> TRUE, losses |-> losses, sem |-> NoSem,
             semantic_feats |-> FALSE]
       ELSE ExtractLgGraph(c, training, detTraining, batch, g, losses, feats) :
       feats \in {ExtractFeat(c, training, batch, force_perturb, clip_size, draw)}})

(* -------------------------------- loss -------------------------------- *)
ReconBoxSelMut(c, r) == IF ~c.use_pred_boxes_recon_loss THEN "gt" ELSE "pred"

\* the target boxes of one image for the reconstruction loss
ReconBoxSel(c, r) == IF r.key /\ ~c.use_pred_boxes_recon_loss THEN "gt" ELSE "pred"

\* ds_head.loss / ds_head.predict read the graph's attributes
DsHeadCall(graph) == IF graph.none THEN "AttributeError" ELSE ""

DsHeadStepMut(c, graph) == DsHeadCall(graph)

\* try: ds_head...  except AttributeError: raise NotImplementedError(
\*   "Must have graph head in order to do downstream prediction")
DsHeadStep(c, graph) ==
  IF DsHeadCall(graph) = "AttributeError" THEN "NotImplementedError" ELSE DsHeadCall(graph)

DetectorLossesMut(detTraining) == {"loss_det"}

\* losses = self.detector.loss(...) if self.detector.training else {}
DetectorLosses(detTraining) == IF detTraining THEN {"loss_det"} ELSE {}

NoRet == [err |-> "", returned |-> FALSE]

\* loss after extract_lg returned lg
LossHeads(c, batch, lg) ==
  LET recon_boxes == IF c.reconstruction_head
                     THEN [i \in 1..Len(batch.imgs) |-> ReconBoxSel(c, batch.imgs[i])]
                     ELSE <<>>
      l1 == IF c.reconstruction_head THEN lg.losses.keys \cup {"loss_recon"} ELSE lg.losses.keys
      dsErr == IF c.ds_head THEN DsHeadStep(c, lg.graph) ELSE ""
      l2 == IF c.ds_head THEN l1 \cup {"loss_ds"} ELSE l1
  IN  IF dsErr # "" THEN [err |-> dsErr, returned |-> FALSE, lg |-> lg, recon_boxes |-> recon_boxes]
      ELSE [err |-> "", returned |-> TRUE, lg |-> lg, recon_boxes |-> recon_boxes, losses |-> l2]

Loss(c, training, detTraining, batch, g, draw) ==
  The({IF lg.err # "" THEN [err |-> lg.err, returned |-> FALSE, lg |-> lg]
       ELSE LossHeads(c, batch, lg) :
       lg \in {ExtractLg(c, training, detTraining, batch, g, FALSE,
                         Losses(DetectorLosses(detTraining)), -1, draw)}})

(* ------------------------------- predict ------------------------------ *)
\* [:, 1:] removes the image-index column of an edge_flats row
Strip(row) == Tail(row)

EdgeFlatsOfSplitMut(graph, ind) ==
  The({[k \in 1..Len(chunk) |-> chunk[k]] :
       chunk \in {Split(graph.edge_flats, graph.edges_per_img)[ind + 1]}})

\* add_lg_to_results: graph.edges.get('edge_flats').split(epi)[batch_ind][:, 1:]
EdgeFlatsOfSplit(graph, ind) ==
  The({[k \in 1..Len(chunk) |-> Strip(chunk[k])] :
       chunk \in {Split(graph.edge_flats, graph.edges_per_img)[ind + 1]}})

\* add_scene_graph_to_results: batch_inds = graph.edges.edge_flats[:, 0] == ind
BatchInds(graph, ind) ==
  {j \in 1..Len(graph.edge_flats) : graph.edge_flats[j][1] = ind}

RECURSIVE MaskSelect(_, _, _)
\* t[mask]: the rows of t whose index is in the mask, in order
MaskSelect(t, mask, j) ==
  IF j > Len(t) THEN <<>>
  ELSE (IF j \in mask THEN <<t[j]>> ELSE <<>>) \o MaskSelect(t, mask, j + 1)

\* the latent graph of image ind (0-based)
AddLgToResults(lg, ind) ==
  [viz_feats |-> lg.feats.instance_feats[ind + 1],
   has_semantic_feats |-> lg.semantic_feats,
   edge_flats |-> EdgeFlatsOfSplit(lg.graph, ind),
   boxes |-> lg.graph.boxes[ind + 1],
   class_logits |-> Split(lg.graph.class_logits, lg.graph.edges_per_img)[ind + 1]]

\* the predicted edges of image ind (0-based)
AddSceneGraphToResults(lg, ind) ==
  The({[edge_flats |-> [k \in 1..Len(rows) |-> Strip(rows[k])],
        edge_boxes |-> lg.graph.boxes[ind + 1],
        relations |-> MaskSelect(lg.graph.class_logits, batch_inds, 1)] :
       <<batch_inds, rows>> \in
         {<<bi, MaskSelect(lg.graph.edge_flats, bi, 1)>> : bi \in {BatchInds(lg.graph, ind)}}})

\* scale_factor = 1 / torch.Tensor(results[0].scale_factor), used for every result
RescaleFactor(results, i) == results[1].sf

\* scale_boxes(bboxes, 1 / scale_factor): x by 1/w_scale, y by 1/h_scale
ScaleBoxesInv(bs, sf) ==
  [k \in 1..Len(bs) |-> <<bs[k][1] \div sf[1], bs[k][2] \div sf[2],
                          bs[k][3] \div sf[1], bs[k][4] \div sf[2]>>]

\* predict after extract_lg returned lg
PredictHeads(c, batch, rescale, lg) ==
  LET results == batch.imgs
      hasGraph == ~lg.graph.none
      res == [i \in 1..Len(results) |->
                [bboxes |-> IF rescale THEN ScaleBoxesInv(results[i].pred, RescaleFactor(results, i))
                            ELSE results[i].pred,
                 has_lg |-> hasGraph,
                 lg |-> IF hasGraph THEN AddLgToResults(lg, i - 1) ELSE NoGraph,
                 pred_edges |-> IF hasGraph THEN AddSceneGraphToResults(lg, i - 1) ELSE NoGraph,
                 has_gt_edges |-> hasGraph,
                 has_reconstruction |-> c.reconstruction_head,
                 has_pred_ds |-> c.ds_head]]
  IN  IF hasGraph /\ lg.gt_edges_none THEN [err |-> "AttributeError", returned |-> FALSE, lg |-> lg]
      ELSE IF c.ds_head /\ DsHeadStep(c, lg.graph) # ""
      THEN [err |-> DsHeadStep(c, lg.graph), returned |-> FALSE, lg |-> lg]
      ELSE [err |-> "", returned |-> TRUE, lg |-> lg, results |-> res]

Predict(c, training, detTraining, batch, g, rescale, draw) ==
  The({IF lg.err # "" THEN [err |-> lg.err, returned |-> FALSE, lg |-> lg]
       ELSE PredictHeads(c, batch, rescale, lg) :
       lg \in {ExtractLg(c, training, detTraining, batch, g, FALSE, NoLosses, -1, draw)}})

(* ------------------------------ _forward ------------------------------ *)
\* raise NotImplementedError
ForwardMut == [err |-> "", returned |-> TRUE]

\* def _forward(self, *args, **kwargs): raise NotImplementedError
Forward == [err |-> "NotImplementedError", returned |-> FALSE]

(* ------------------------------ state --------------------------------- *)
\* inputs of the box perturbation specification
PerturbLists ==
  {<<<<b>>>> : b \in AllBoxes} \cup SeqsUpTo(SeqsUpTo(BoxPool, 1), MaxBatch)

\* perturbation factors 1/PfDen, 1 and 3, as numerators over PfDen
PfNums == {1, PfDen, 3 * PfDen}

ClipSizes == {-1, 0, 1, 2}

NoCall == [op |-> "none"]

NoOut == NoRet

\* the number of boxes extract_feat selects, one random row is drawn for each
NumSelected(c, training, batch) ==
  SumSeq([i \in 1..Len(batch.imgs) |->
            IF UseGtBranch(c, training) THEN ExtractFeatSel(batch.imgs[i], "boxes").n
            ELSE Len(batch.imgs[i].pred)])

DrawsFor(c, training, force_perturb, batch) ==
  IF PerturbGuard(c, training, force_perturb)
  THEN {[j \in 1..NumSelected(c, training, batch) |-> r] : r \in DrawRowsSmall}
  ELSE {<<>>}

Construct(A) == \E a \in A : args = a /\ cfg = LGDetectorInit(a)

CallLoss(B, G) ==
  /\ call = NoCall
  /\ \E training \in BOOLEAN, detTraining \in BOOLEAN, batch \in B :
    \E g \in G[Len(batch.imgs)], draw \in DrawsFor(cfg, training, FALSE, batch) :
      /\ call' = [op |-> "loss", training |-> training, detTraining |-> detTraining,
                  batch |-> batch, g |-> g]
      /\ out' = Loss(cfg, training, detTraining, batch, g, draw)
      /\ UNCHANGED <<args, cfg>>

CallPredict(B, G) ==
  /\ call = NoCall
  /\ \E training \in BOOLEAN, detTraining \in BOOLEAN, batch \in B, rescale \in BOOLEAN :
    \E g \in G[Len(batch.imgs)], draw \in DrawsFor(cfg, training, FALSE, batch) :
      /\ call' = [op |-> "predict", training |-> training, detTraining |-> detTraining,
                  batch |-> batch, g |-> g, rescale |-> rescale]
      /\ out' = Predict(cfg, training, detTraining, batch, g, rescale, draw)
      /\ UNCHANGED <<args, cfg>>

CallExtractLg(B, G, DT, LS) ==
  /\ call = NoCall
  /\ \E training \in BOOLEAN, detTraining \in DT, batch \in B, force_perturb \in BOOLEAN,
     losses \in LS, clip_size \in {-1} :
    \E g \in G[Len(batch.imgs)], draw \in DrawsFor(cfg, training, force_perturb, batch) :
      /\ call' = [op |-> "extract_lg", training |-> training, detTraining |-> detTraining,
                  batch |-> batch, g |-> g, force_perturb |-> force_perturb,
                  losses |-> losses, clip_size |-> clip_size]
      /\ out' = ExtractLg(cfg, training, detTraining, batch, g, force_perturb, losses,
                          clip_size, draw)
      /\ UNCHANGED <<args, cfg>>

CallForward ==
  /\ call = NoCall
  /\ call' = [op |-> "_forward"]
  /\ out' = Forward
  /\ UNCHANGED <<args, cfg>>

CallBoxPerturbation ==
  /\ call = NoCall
  /\ \E boxes \in PerturbLists, shape \in Shapes, cs \in ClipSizes :
    \E draw \in [1..Len(Cat(boxes)) -> IF Len(boxes) = 1 THEN DrawRows ELSE DrawRowsSmall] :
      /\ call' = [op |-> "box_perturbation", boxes |-> boxes, image_shape |-> shape,
                  clip_size |-> cs]
      /\ out' = BoxPerturbation(cfg.perturb_factor, boxes, shape, cs, draw)
      /\ UNCHANGED <<args, cfg>>

(* ------------------- box perturbation specification ------------------- *)
PerturbArgs == {[DefaultArgs EXCEPT !.perturb_factor = pf] : pf \in PfNums}

InitPerturb == Construct(PerturbArgs) /\ call = NoCall /\ out = NoOut

NextPerturb == CallBoxPerturbation

SpecPerturb == InitPerturb /\ [][NextPerturb]_vars

(* ---------------------- orchestration specification ------------------- *)
Image(key, pred, gt, gm, sf, shape) ==
  [key |-> key, pred |-> pred, gt |-> gt, gt_masks |-> gm, sf |-> sf, ori_shape |-> shape]

OneBox == <<<<Px(0), Px(0), Px(1), Px(1)>>>>

OrchImages == {Image(key, OneBox, OneBox, TRUE, <<1, 1>>, <<MaxDim, MaxDim>>) : key \in BOOLEAN}

OrchBatches ==
  [imgs : UNION {[1..k -> OrchImages] : k \in 1..MaxBatch},
   pred_masks : {TRUE}, gt_classes : {FALSE}]

\* the graph head's edges for a batch of n images: one edge per image
OrchGraphs == [n \in 1..MaxBatch |-> {[i \in 1..n |-> <<<<0, 0>>>>]}]

OrchArgs ==
  {[DefaultArgs EXCEPT !.roi_extractor = TRUE,
                       !.graph_head = gh, !.ds_head = ds, !.reconstruction_head = rh,
                       !.force_train_graph_head = ft, !.force_encode_semantics = fe,
                       !.semantic_feat_size = sz, !.use_pred_boxes_recon_loss = up] :
     gh \in BOOLEAN, ds \in BOOLEAN, rh \in BOOLEAN, ft \in BOOLEAN, fe \in BOOLEAN,
     sz \in {0, SemanticFeatSize}, up \in BOOLEAN}

Init == Construct(OrchArgs) /\ call = NoCall /\ out = NoOut

Next ==
  \/ CallLoss(OrchBatches, OrchGraphs)
  \/ CallPredict(OrchBatches, OrchGraphs)
  \/ CallExtractLg(OrchBatches, OrchGraphs, BOOLEAN, {NoLosses, Losses({})})
  \/ CallForward

Spec == Init /\ [][Next]_vars

(* -------------------- feature extraction specification ---------------- *)
\* the first n boxes of a fixed list, shifted by dx pixels
BoxList(n, dx) == [k \in 1..n |-> <<Px(k - 1 + dx), Px(0), Px(k + dx), Px(k)>>]

\* <<predicted count, ground-truth count>> of an image
FeatCounts == {<<MaxInst, 1>>, <<1, MaxInst>>, <<1, 0>>}

FeatImages ==
  {Image(key, BoxList(pg[1], 0), BoxList(pg[2], 1), gm, <<1, 1>>, <<MaxDim, MaxDim>>) :
     key \in BOOLEAN, pg \in FeatCounts, gm \in BOOLEAN}

FeatBatches ==
  [imgs : UNION {[1..k -> FeatImages] : k \in 1..MaxBatch},
   pred_masks : BOOLEAN, gt_classes : BOOLEAN]

FeatGraphs == OrchGraphs

FeatArgs ==
  {[DefaultArgs EXCEPT !.graph_head = TRUE, !.force_encode_semantics = TRUE,
                       !.roi_extractor = re, !.use_gt_dets = ug, !.perturb_factor = pf] :
     re \in BOOLEAN, ug \in BOOLEAN, pf \in {0, 1}}

InitFeat == Construct(FeatArgs) /\ call = NoCall /\ out = NoOut

NextFeat == CallExtractLg(FeatBatches, FeatGraphs, {FALSE}, {Losses({})})

SpecFeat == InitFeat /\ [][NextFeat]_vars

(* -------------------- semantic encoding specification ----------------- *)
\* every combination of the three semantic-feature toggles, with a graph head
SemArgs ==
  {[DefaultArgs EXCEPT !.graph_head = TRUE, !.roi_extractor = TRUE,
                       !.force_encode_semantics = TRUE,
                       !.sem_feat_use_bboxes = ub, !.sem_feat_use_class_logits = uc,
                       !.sem_feat_use_masks = um] :
     ub \in BOOLEAN, uc \in BOOLEAN, um \in BOOLEAN}

InitSem == Construct(SemArgs) /\ call = NoCall /\ out = NoOut

NextSem == CallExtractLg(OrchBatches, OrchGraphs, {FALSE}, {Losses({})})

SpecSem == InitSem /\ [][NextSem]_vars

(* ---------------------- aggregation specification --------------------- *)
MaxEdges == 2

ScaleFactors == {<<1, 1>>, <<2, 2>>, <<1, 2>>}

AggImages == {Image(TRUE, BoxList(1, 0), BoxList(1, 0), TRUE, sf, <<MaxDim, MaxDim>>) : sf \in ScaleFactors}

AggBatches ==
  [imgs : UNION {[1..k -> AggImages] : k \in 1..MaxBatch},
   pred_masks : {TRUE}, gt_classes : {FALSE}]

\* e edges <<source, target>> of one image
EdgeList(e) == [k \in 1..e |-> <<k - 1, k % 2>>]

AggGraphs ==
  [n \in 1..MaxBatch |-> {[i \in 1..n |-> EdgeList(e[i])] : e \in [1..n -> 0..MaxEdges]}]

AggArgs == {[DefaultArgs EXCEPT !.graph_head = TRUE, !.roi_extractor = TRUE, !.ds_head = ds] : ds \in BOOLEAN}

InitAgg == Construct(AggArgs) /\ call = NoCall /\ out = NoOut

NextAgg == CallPredict(AggBatches, AggGraphs)

SpecAgg == InitAgg /\ [][NextAgg]_vars

(* ------------------------------ claims -------------------------------- *)
\* the extract_lg record of the last call
LgOf == IF call.op = "extract_lg" THEN out ELSE out.lg

RanExtractLg == call.op \in {"loss", "predict", "extract_lg"}

\* C1: loss and predict with a downstream head and no graph head always end
\* in the configuration error and never return.
C1_DsWithoutGraphFails ==
  (call.op \in {"loss", "predict"} /\ cfg.ds_head /\ ~cfg.graph_head) =>
    (out.err = "NotImplementedError" /\ ~out.returned)

C1_Witness ==
  /\ call.op = "loss" /\ cfg.ds_head /\ ~cfg.graph_head /\ cfg.reconstruction_head
  /\ call.training /\ out.err = "NotImplementedError"

\* C2: with a graph head, extract_lg runs loss_and_predict (and merges the
\* graph losses into the mapping it was given) exactly when the detector is
\* training, or force_train_graph_head is set and the model is training;
\* otherwise it runs predict only and adds no graph loss.
C2_GraphHeadTrainedIff ==
  (RanExtractLg /\ cfg.graph_head /\ LgOf.feats.err = "") =>
    /\ LgOf.graph_call = "loss_and_predict"
         <=> (call.detTraining \/ (cfg.force_train_graph_head /\ call.training))
    /\ LgOf.graph_call \in {"loss_and_predict", "predict"}
    /\ LgOf.graph_call = "predict" => "loss_graph" \notin LgOf.losses.keys
    /\ (LgOf.graph_call = "loss_and_predict" /\ ~LgOf.losses.none)
         => "loss_graph" \in LgOf.losses.keys

C2_Witness ==
  /\ call.op = "loss" /\ cfg.graph_head /\ out.returned
  /\ ~call.detTraining /\ cfg.force_train_graph_head /\ call.training
  /\ out.lg.graph_call = "loss_and_predict" /\ "loss_graph" \in out.losses

\* C10: whenever encode_semantics is set, the feature bundle returned by
\* extract_lg carries semantic_feats, with or without a graph head.
C10_SemanticFeatsWheneverEnabled ==
  (RanExtractLg /\ cfg.encode_semantics /\ LgOf.err = "") => LgOf.semantic_feats

BoxInBounds(b, image_shape) ==
  /\ 0 <= b[1] /\ b[1] <= b[3] /\ b[3] <= Px(image_shape[2])
  /\ 0 <= b[2] /\ b[2] <= b[4] /\ b[4] <= Px(image_shape[1])

\* C5: every box returned by box_perturbation lies inside the image, with
\* 0 <= x1 <= x2 <= width and 0 <= y1 <= y2 <= height.
C5_BoxesInBounds ==
  (call.op = "box_perturbation" /\ out.err = "") =>
    \A i \in 1..Len(out.boxes) : \A k \in 1..Len(out.boxes[i]) :
      BoxInBounds(out.boxes[i][k], call.image_shape)

C5_Witness ==
  /\ call.op = "box_perturbation" /\ out.err = ""
  /\ cfg.perturb_factor > PfDen
  /\ \E i \in 1..Len(out.boxes) : \E k \in 1..Len(out.boxes[i]) :
       /\ out.boxes[i][k] # call.boxes[i][k]
       /\ out.boxes[i][k][1] < out.boxes[i][k][3]

RECURSIVE FrameOf(_, _)
\* the (1-based) frame that owns row j of the concatenated boxes
FrameOf(counts, j) ==
  IF counts = <<>> \/ j <= Head(counts) THEN 1 ELSE 1 + FrameOf(Tail(counts), j - Head(counts))

\* C6: box perturbation with a positive clip size returns a per-image list
\* with the input's per-image box counts, in which every box of every frame
\* of one clip received the same random 4-vector.
C6_ClipModeSharesDraw ==
  (call.op = "box_perturbation" /\ call.clip_size > 0) =>
    /\ out.err = ""
    /\ Lens(out.boxes) = Lens(call.boxes)
    /\ Len(out.draw) = Len(Cat(call.boxes))
    /\ \A j1, j2 \in 1..Len(out.draw) :
         ((FrameOf(Lens(call.boxes), j1) - 1) \div call.clip_size
            = (FrameOf(Lens(call.boxes), j2) - 1) \div call.clip_size)
           => out.draw[j1] = out.draw[j2]

\* the selections made for image i by one of the two selecting functions
SelOK(sel, batch, i) ==
  /\ ~batch.imgs[i].key =>
       /\ sel.box_sel[i].src = "pred"
       /\ sel.class_sel[i].src = "pred"
       /\ sel.score_sel[i].src = "pred"
       /\ sel.has_masks => sel.mask_sel[i].src = "pred"
  /\ (\/ sel.box_sel[i].src = "gt"
      \/ sel.class_sel[i].src = "gt"
      \/ sel.has_masks /\ sel.mask_sel[i].src = "gt")
       => (cfg.use_gt_dets /\ call.training /\ batch.imgs[i].key)

\* C3: in extract_feat and in compute_semantic_feat an image that is not a
\* keyframe takes its boxes, classes, scores and masks from the predicted
\* instances; ground truth is selected only under use_gt_dets, in training
\* mode, for a keyframe.
C3_NonKeyframesUsePredictions ==
  (RanExtractLg /\ LgOf.feats.err = "") =>
    \A i \in 1..Len(call.batch.imgs) :
      /\ SelOK(LgOf.feats, call.batch, i)
      /\ LgOf.sem.called => SelOK(LgOf.sem, call.batch, i)

C3_Witness ==
  /\ call.op = "extract_lg" /\ out.err = "" /\ out.sem.called
  /\ cfg.use_gt_dets /\ call.training
  /\ \E i, j \in 1..Len(call.batch.imgs) :
       /\ call.batch.imgs[i].key /\ ~call.batch.imgs[j].key
       /\ out.feats.box_sel[i].src = "gt" /\ out.sem.box_sel[i].src = "gt"
       /\ out.sem.has_masks /\ out.sem.mask_sel[i].src = "gt"
       /\ out.feats.box_sel[j].src = "pred" /\ out.sem.mask_sel[j].src = "pred"
       /\ Len(call.batch.imgs[j].pred) > 0

\* C4: on the region-pooling path the padded instance features have as many
\* rows per image as the largest per-image count of boxes used for
\* extraction, and the first n rows of an image (n its predicted-instance
\* count) are exactly the rows extracted for that image, without padding.
C4_ValidRowsAreExtractedRows ==
  (RanExtractLg /\ cfg.roi_extractor /\ LgOf.err = "") =>
    \A i \in 1..Len(call.batch.imgs) :
      /\ Len(LgOf.feats.instance_feats[i]) = MaxSeq(Lens(LgOf.feats.boxes))
      /\ LgOf.pred_feats[i]
           = [k \in 1..Len(LgOf.feats.boxes[i]) |->
                [img |-> i - 1, k |-> k - 1, box |-> LgOf.feats.boxes[i][k]]]

\* C7: with perturbation factor 0, and whenever use_gt_dets is set (the
\* factor is then forced to 0), the boxes handed to feature extraction are
\* the selected boxes.
C7_FactorZeroIsIdentity ==
  (RanExtractLg /\ LgOf.feats.err = "" /\ (cfg.perturb_factor = 0 \/ args.use_gt_dets)) =>
    /\ LgOf.feats.boxes = LgOf.feats.selected
    /\ ~LgOf.feats.perturbed

C7_Witness ==
  /\ call.op = "extract_lg" /\ out.err = ""
  /\ args.use_gt_dets /\ args.perturb_factor > 0 /\ call.training /\ call.force_perturb
  /\ out.feats.boxes = out.feats.selected
  /\ \E i \in 1..Len(out.feats.boxes) : out.feats.box_sel[i].src = "gt" /\ Len(out.feats.boxes[i]) > 0

\* C8: predict with rescale maps every image's boxes back with that image's
\* own scale factor: scaled by the image's scale factor again they are the
\* working-resolution boxes.
C8_RescaleUsesOwnFactor ==
  (call.op = "predict" /\ out.returned /\ call.rescale) =>
    \A i \in 1..Len(call.batch.imgs) : \A k \in 1..Len(call.batch.imgs[i].pred) :
      /\ out.results[i].bboxes[k][1] * call.batch.imgs[i].sf[1] = call.batch.imgs[i].pred[k][1]
      /\ out.results[i].bboxes[k][2] * call.batch.imgs[i].sf[2] = call.batch.imgs[i].pred[k][2]
      /\ out.results[i].bboxes[k][3] * call.batch.imgs[i].sf[1] = call.batch.imgs[i].pred[k][3]
      /\ out.results[i].bboxes[k][4] * call.batch.imgs[i].sf[2] = call.batch.imgs[i].pred[k][4]

\* C9: the per-image edge_flats of add_lg_to_results and of
\* add_scene_graph_to_results have exactly the image's edge count, hold only
\* that image's edges and have lost the image-index column.
C9_EdgeFlatsPerImage ==
  (call.op = "predict" /\ out.returned /\ ~out.lg.graph.none) =>
    \A i \in 1..Len(call.batch.imgs) :
      /\ Len(out.results[i].lg.edge_flats) = Len(call.g[i])
      /\ Len(out.results[i].pred_edges.edge_flats) = Len(call.g[i])
      /\ out.results[i].lg.edge_flats = call.g[i]
      /\ out.results[i].pred_edges.edge_flats = call.g[i]
      /\ \A k \in 1..Len(call.g[i]) :
           /\ Len(out.results[i].lg.edge_flats[k]) = 2
           /\ Len(out.results[i].pred_edges.edge_flats[k]) = 2
           /\ out.results[i].lg.class_logits[k] = <<i - 1>> \o call.g[i][k]
           /\ out.results[i].pred_edges.relations[k] = <<i - 1>> \o call.g[i][k]
      /\ Len(out.results[i].lg.class_logits) = Len(call.g[i])
      /\ Len(out.results[i].pred_edges.relations) = Len(call.g[i])

C9_Witness ==
  /\ call.op = "predict" /\ out.returned /\ ~out.lg.graph.none
  /\ \E i, j \in 1..Len(call.batch.imgs) :
       /\ i < j /\ Len(call.g[i]) = 0 /\ Len(call.g[j]) = MaxEdges
       /\ Len(out.results[j].lg.edge_flats) = MaxEdges
       /\ Len(out.results[i].pred_edges.edge_flats) = 0

\* C11: neither semantic projector is invoked with exactly one input row:
\* a one-row node input and a one-row edge input are duplicated to two rows.
C11_NoSingleRowProjectorCall ==
  (RanExtractLg /\ LgOf.sem.called) =>
    /\ LgOf.sem.node_invoked =>
         (LgOf.sem.proj_rows # 1 /\ (LgOf.sem.rows = 1 => LgOf.sem.proj_rows = 2))
    /\ LgOf.sem.edge_invoked =>
         (LgOf.sem.edge_proj_rows # 1 /\ (LgOf.sem.edge_rows = 1 => LgOf.sem.edge_proj_rows = 2))

\* C12: loss includes the detector's losses exactly when the detector is in
\* training mode; otherwise the returned mapping holds only the losses of the
\* graph, reconstruction and downstream heads that are active.
C12_DetectorLossesIffTraining ==
  (call.op = "loss" /\ out.returned) =>
    /\ ("loss_det" \in out.losses) <=> call.detTraining
    /\ ("loss_graph" \in out.losses) <=> (out.lg.graph_call = "loss_and_predict")
    /\ ("loss_recon" \in out.losses) <=> cfg.reconstruction_head
    /\ ("loss_ds" \in out.losses) <=> cfg.ds_head
    /\ out.losses \subseteq {"loss_det", "loss_graph", "loss_recon", "loss_ds"}

C12_Witness ==
  /\ call.op = "loss" /\ out.returned
  /\ ~call.detTraining
  /\ out.losses = {"loss_graph", "loss_recon", "loss_ds"}

\* C13 as stated: the reconstruction targets of every image are its ground
\* truth boxes unless use_pred_boxes_recon_loss is set, and then its predicted
\* boxes.
C13_ReconTargetsByFlagOnly ==
  (call.op = "loss" /\ cfg.reconstruction_head /\ out.lg.err = "") =>
    \A i \in 1..Len(call.batch.imgs) :
      out.recon_boxes[i] = IF cfg.use_pred_boxes_recon_loss THEN "pred" ELSE "gt"

\* C13 amended: the reconstruction targets of an image are its ground truth
\* boxes when it is a detection keyframe and use_pred_boxes_recon_loss is not
\* set; they are its predicted boxes otherwise.
C13_ReconTargetsByKeyframeAndFlag ==
  (call.op = "loss" /\ cfg.reconstruction_head /\ out.lg.err = "") =>
    /\ Len(out.recon_boxes) = Len(call.batch.imgs)
    /\ \A i \in 1..Len(call.batch.imgs) :
         out.recon_boxes[i] =
           IF call.batch.imgs[i].key /\ ~cfg.use_pred_boxes_recon_loss THEN "gt" ELSE "pred"

C13_Witness ==
  /\ call.op = "loss" /\ cfg.reconstruction_head /\ out.returned
  /\ ~cfg.use_pred_boxes_recon_loss
  /\ Len(call.batch.imgs) = 2
  /\ call.batch.imgs[1].key /\ ~call.batch.imgs[2].key
  /\ out.recon_boxes = <<"gt", "pred">>

\* C14: _forward raises NotImplementedError for every configuration and mode,
\* runs neither the detector nor a head, and leaves the model unchanged.
C14_ForwardAlwaysRaises ==
  (call.op = "_forward") =>
    /\ out.err = "NotImplementedError" /\ ~out.returned
    /\ DOMAIN out = {"err", "returned"}
    /\ cfg = LGDetectorInit(args)

C14_Witness ==
  /\ call.op = "_forward" /\ out.err = "NotImplementedError"
  /\ cfg.graph_head /\ cfg.ds_head /\ cfg.reconstruction_head

\* C15: for every combination of the semantic-feature toggles, the width of
\* the node input row and of the edge input row assembled in
\* compute_semantic_feat equals the input dimension of the matching projector.
C15_InputWidthMatchesProjector ==
  (RanExtractLg /\ LgOf.sem.called) =>
    /\ cfg.sem_input_dim = (IF cfg.sem_feat_use_bboxes THEN 4 ELSE 0)
                             + (IF cfg.sem_feat_use_class_logits THEN NumClasses ELSE 0)
                             + (IF cfg.sem_feat_use_masks THEN 2 * MaskPolygonNumPoints ELSE 0) + 1
    /\ cfg.edge_sem_input_dim = (IF cfg.sem_feat_use_bboxes THEN 4 ELSE 0)
                                  + (IF cfg.sem_feat_use_class_logits THEN NumEdgeClasses ELSE 0)
    /\ LgOf.sem.node_invoked => LgOf.sem.width = cfg.sem_input_dim
    /\ LgOf.sem.edge_invoked => LgOf.sem.edge_width = cfg.edge_sem_input_dim

\* C16: predict with a graph head returns one result per image in every mode:
\* extract_lg takes the predict branch, so the ground truth edges are present.
C16_PredictCompletesInEveryMode ==
  (call.op = "predict" /\ cfg.graph_head) =>
    /\ out.returned
    /\ Len(out.results) = Len(call.batch.imgs)
    /\ out.lg.graph_call = "predict"
    /\ ~out.lg.gt_edges_none

====
